---- MODULE Spec2Model ----
(***************************************************************************)
(* HydraQL (src/hydraql.py): a parallel CodeQL runner.  The model follows  *)
(* main(): detect_databases, gather_queries, the ThreadPoolExecutor that   *)
(* runs run_query for every (query, language) pair under a per-database    *)
(* semaphore, the as_completed loop and the merge of the raw result files. *)
(* External processes (codeql database create / finalize / analyze), the   *)
(* file system and the process table are the environment: their outcomes   *)
(* are chosen nondeterministically from the sets the variable env allows.  *)
(***************************************************************************)
EXTENDS Naturals, Integers, Sequences, FiniteSets, TLC

(* ----------------------------- bounds --------------------------------- *)
\* Largest --threads value explored (size of the worker pool).
MaxThreads == 2
\* Largest number of queries in the catalog handed to the scheduler.
MaxQueries == 3

(* ------------------------- plain data ---------------------------------- *)
\* Optional values (Python's None, a file that does not exist).
Nothing == << >>
Some(x) == << x >>
IsSome(o) == o # << >>
The(o) == o[1]

\* Requested languages after alias_lang; a database is identified by its
\* language: db_dir = db_root / lang (detect_databases, line 266).
Langs == {"java", "python"}

\* Query files in sorted path order.  A path is a directory and a file stem;
\* lang is the language gather_queries pairs the query with.
AllQueries ==
  << [dir |-> "a", stem |-> "foo", lang |-> "java"],
     [dir |-> "b", stem |-> "foo", lang |-> "java"],
     [dir |-> "c", stem |-> "bar", lang |-> "python"],
     [dir |-> "d", stem |-> "qux", lang |-> "java"] >>

Formats == {"csv", "json", "sarif"}

\* The two places find_all_locks looks at first; every other */cache/.lock
\* found by rglob behaves like "nested".
LockPaths == {"direct", "nested"}

\* Lock file contents as token sequences: text without digits, the label
\* "pid=", or a number.
Txt == [k |-> "txt", v |-> 0]
Label == [k |-> "pid=", v |-> 0]
Num(n) == [k |-> "num", v |-> n]

LockContents ==
  { <<Txt>>, <<Label, Num(7)>>, <<Num(3), Label, Num(7)>>, <<Txt, Num(3)>>,
    <<Label, Num(0)>> }

BoolSet == {TRUE, FALSE}

\* The subsequence of seq at the positions in keep, in order.
SelectAt(seq, keep) ==
  LET nth(k) == CHOOSE i \in keep : Cardinality({ j \in keep : j < i }) = k - 1
  IN  [k \in 1 .. Cardinality(keep) |-> seq[nth(k)]]

(* ----------------------------- state ----------------------------------- *)
VARIABLES
  args,        \* parse_args(): the operator's flags
  langs,       \* main: langs, the requested languages in order
  catalog,     \* the queries gather_queries finds, sorted, with languages
  env,         \* what the environment may do in this run
  dbfs,        \* per language: the database directory on disk
  locks,       \* per language and lock path: the lock file's content
  procs,       \* the live processes (pids)
  outfiles,    \* tmp_hydraql_output/: raw result file per name
  flog,        \* hydraql_failures.log: Nothing or the entries
  report,      \* HydraQL_output-<ts>.<fmt>: Nothing or the merged findings
  phase,       \* where main() is
  idx,         \* detect_databases: index of the next language
  found,       \* detect_databases: found (languages with a usable database)
  missing,     \* detect_databases: missing
  unfinalized, \* detect_databases: unfinalized
  cls,         \* per language: the readiness class observed at startup
  pairs,       \* main: pairs
  queue,       \* the executor's work queue (indices into pairs)
  fstate,      \* per future: none / pending / running / returned / raised
  fres,        \* per future: run_query's return value
  results,     \* main: results
  taken,       \* the futures main has consumed from as_completed
  mux,         \* _DB_LOCKS_MUX: the worker holding it, 0 when free
  dbLocks,     \* _DB_LOCKS: database -> index into sems, 0 when absent
  sems,        \* the threading.Semaphore objects: their counters
  pc,          \* per worker: where it is in run_query
  cur,         \* per worker: the future it runs, 0 when idle
  sem,         \* per worker: db_semaphore's/run_query's local sem
  invoked,     \* per future: analyzer invocations started so far
  errs,        \* per future: "ok" or the stderr class of each finished one
  evs,         \* what the lock sweeps did: probes, kills, clears
  runlog,      \* external codeql processes started: kind, database
  call,        \* a library function applied on its own: name and arguments
  ret          \* what that application returned, Nothing before it

vars == << args, langs, catalog, env, dbfs, locks, procs, outfiles, flog,
           report, phase, idx, found, missing, unfinalized, cls, pairs,
           queue, fstate, fres, results, taken, mux, dbLocks, sems,
           pc, cur, sem, invoked, errs, evs, runlog, call, ret >>

inputVars == << args, langs, catalog, env >>
detectVars == << idx, found, missing, unfinalized, cls >>
schedVars == << pairs, queue, fstate, fres, results, taken >>
gateVars == << mux, dbLocks, sems >>
workerVars == << pc, cur, sem, invoked, errs >>
fileVars == << outfiles, flog, report >>
lockVars == << locks, procs, evs >>
pureVars == << call, ret >>

Workers == 1 .. MaxThreads
Items == 1 .. Len(AllQueries)

(* ------------------------- LockManager --------------------------------- *)
\* read_lock_pid falling back to pid 1 instead of None.
read_lock_pid_default(text) ==
  LET numbers == { i \in 1 .. Len(text) : text[i].k = "num" }
  IN  IF numbers # {} THEN Some(text[CHOOSE i \in numbers : TRUE].v)
      ELSE Some(1)

\* read_lock_pid: the number after the first "pid=" label, else the first
\* number, else None.
read_lock_pid(text) ==
  LET labeled == { i \in 1 .. (Len(text) - 1) :
                     text[i].k = "pid=" /\ text[i + 1].k = "num" }
      numbers == { i \in 1 .. Len(text) : text[i].k = "num" }
      Min(S) == CHOOSE x \in S : \A y \in S : x <= y
  IN  IF labeled # {} THEN Some(text[Min(labeled) + 1].v)
      ELSE IF numbers # {} THEN Some(text[Min(numbers)].v)
      ELSE Nothing

\* Python truthiness of "pid": None and 0 are false.
Truthy(pid) == IsSome(pid) /\ The(pid) # 0

\* process_running: os.kill(pid, 0) succeeds.
process_running(pid) == pid \in procs

\* find_all_locks: the lock paths under the database that exist.
find_all_locks(lk, d) == { p \in LockPaths : IsSome(lk[d][p]) }

\* force_delete_lock: what is left at the lock path, by the strategy that
\* succeeded (unlink, chmod+unlink, truncate+unlink, rename) or "fail".
ClearOutcomes == {"unlink", "chmod", "truncate", "rename", "fail"}

force_delete_lock(file, outcome) ==
  IF outcome = "fail" THEN file ELSE Nothing

\* The recovery sweep run with the operator's own flags.
RetryArgs_AsConfigured(a) == a

\* _RetryArgs that also asks for the lock owner to be killed.
RetryArgs_KillsOwner(a) ==
  [a EXCEPT !.unlock_cache = TRUE, !.kill_lock_process = TRUE]

\* _RetryArgs built in run_query's lock_hit branch.
RetryArgs(a) ==
  [a EXCEPT !.unlock_cache = TRUE, !.kill_lock_process = FALSE]

\* maybe_handle_cache_lock(db_dir, a) on the world s = [locks, procs, evs];
\* how[p] is the outcome force_delete_lock has on lock p.  forced marks the
\* call made with _RetryArgs.  evs collects what the sweep does per lock:
\* "found" (the line printed for it), "probe" (the PID=... RUNNING line),
\* "kill" (try_kill_process), "clear" (force_delete_lock).
maybe_handle_cache_lock(d, a, forced, how, s) ==
  LET hit == find_all_locks(s.locks, d)
      pidOf(p) == read_lock_pid(The(s.locks[d][p]))
      withPid == { q \in hit : Truthy(pidOf(q)) }
      Ev(o, p) == [op |-> o, db |-> d, path |-> p,
                   text |-> The(s.locks[d][p]), forced |-> forced]
      founds == { Ev("found", p) : p \in hit }
      probes == IF a.check_lock_process
                THEN { Ev("probe", p) : p \in withPid } ELSE {}
      kills == IF a.kill_lock_process
               THEN { Ev("kill", p) : p \in withPid } ELSE {}
      clears == IF a.unlock_cache
                THEN { Ev("clear", p) : p \in hit } ELSE {}
      killed == IF a.kill_lock_process
                THEN { The(pidOf(p)) : p \in withPid } ELSE {}
  IN  [ locks |-> [s.locks EXCEPT ![d] =
                     [p \in LockPaths |->
                        IF p \in hit /\ a.unlock_cache
                        THEN force_delete_lock(s.locks[d][p], how[p])
                        ELSE s.locks[d][p]]],
        procs |-> s.procs \ killed,
        evs   |-> s.evs \cup founds \cup probes \cup kills \cup clears ]

World == [locks |-> locks, procs |-> procs, evs |-> evs]

Hows == [LockPaths -> env.clears]

(* ------------------------ DatabaseRegistry ----------------------------- *)
\* The directory contents explored: plain files outside EXCLUDE_DIRS (the
\* descriptor codeql-database.yml not counted here) and files under
\* default/cache, logs, results, working, diagnostic.
HousekeepingOnly == [plain |-> 0, house |-> 60]
FewFiles == [plain |-> 3, house |-> 0]
ManyFiles == [plain |-> 60, house |-> 0]

\* is_db_empty, line 253: "if count > 50: return False".
EmptyLimit == 50

\* is_db_empty counting every file, the excluded subtrees too.
is_db_empty_all(db) ==
  db.files.plain + db.files.house + (IF db.meta THEN 1 ELSE 0) <= EmptyLimit

\* is_db_empty: at most 50 files outside the excluded subtrees; the
\* descriptor, when it exists, is one of them.
is_db_empty(db) ==
  db.files.plain + (IF db.meta THEN 1 ELSE 0) <= EmptyLimit

\* Readiness as the run observes it for one language: Missing when the
\* metadata file is absent after the optional creation, Unfinalized when the
\* finalize attempt failed, Empty by is_db_empty, Ready otherwise.
Readiness(db, finFail) ==
  IF ~db.meta THEN "Missing"
  ELSE IF finFail THEN "Unfinalized"
  ELSE IF is_db_empty(db) THEN "Empty"
  ELSE "Ready"

\* auto_init_db succeeded: codeql database create wrote the database.
Created(db) == [db EXCEPT !.meta = TRUE, !.files = ManyFiles]

\* auto_finalize_db: exit status 0, or "already finalized" in stderr.
auto_finalize_db(fin) == fin \in {"ok", "already"}

\* One iteration of detect_databases' loop, lines 264-298.
\* cr, fin: the outcomes of codeql database create / finalize, if started.
DetectLang(cr, fin, how) ==
  /\ phase = "detect"
  /\ idx <= Len(langs)
  /\ LET lang == langs[idx]
         db0 == dbfs[lang]
         init == ~db0.meta /\ args.auto_init_db
         create == init /\ args.source_root /\ ~args.dry_run
         db1 == IF create /\ cr = "ok" THEN Created(db0) ELSE db0
         w1 == maybe_handle_cache_lock(lang, args, FALSE, how, World)
         finalize == args.auto_finalize_db /\ ~args.dry_run
         finFail == finalize /\ ~auto_finalize_db(fin)
         started == (IF create THEN {[kind |-> "create", db |-> lang]} ELSE {})
     IN
       IF ~db0.meta /\ ~args.auto_init_db
       THEN \* missing.append(lang); continue
            /\ missing' = missing \cup {lang}
            /\ cls' = [cls EXCEPT ![lang] = "Missing"]
            /\ idx' = idx + 1
            /\ UNCHANGED << phase, found, unfinalized, dbfs, lockVars, runlog >>
       ELSE IF init /\ ~args.source_root
       THEN \* --auto-init-db requires --source-root: sys.exit(1)
            /\ phase' = "exit1"
            /\ cls' = [cls EXCEPT ![lang] = "Missing"]
            /\ UNCHANGED << idx, found, missing, unfinalized, dbfs, lockVars,
                            runlog >>
       ELSE IF create /\ cr # "ok" /\ ~args.allow_missing_db
       THEN \* creation failed: sys.exit(1)
            /\ phase' = "exit1"
            /\ cls' = [cls EXCEPT ![lang] = "Missing"]
            /\ runlog' = runlog \cup started
            /\ UNCHANGED << idx, found, missing, unfinalized, dbfs, lockVars >>
       ELSE /\ dbfs' = [dbfs EXCEPT ![lang] = db1]
            /\ locks' = w1.locks
            /\ procs' = w1.procs
            /\ evs' = w1.evs
            /\ runlog' = runlog \cup started \cup
                 (IF finalize THEN {[kind |-> "finalize", db |-> lang]} ELSE {})
            /\ unfinalized' = IF finFail THEN unfinalized \cup {lang}
                              ELSE unfinalized
            /\ cls' = [cls EXCEPT ![lang] = Readiness(db1, finFail)]
            /\ found' = IF (finFail /\ ~args.allow_missing_db)
                           \/ (~args.force_scan_unready /\ is_db_empty(db1))
                        THEN found ELSE found \cup {lang}
            /\ idx' = idx + 1
            /\ UNCHANGED << phase, missing >>
  /\ UNCHANGED << inputVars, pureVars, schedVars, gateVars, workerVars, fileVars >>

DetectStep ==
  \E cr \in env.creates, fin \in env.finalizes, how \in Hows :
    DetectLang(cr, fin, how)

\* The final test looking at the missing list only.
AbortNeeded_MissingOnly == missing # {} /\ ~args.allow_missing_db

\* detect_databases' final test, line 300.
AbortNeeded ==
  (missing # {} \/ unfinalized # {}) /\ ~args.allow_missing_db

\* Lines 300-307 of detect_databases and main's test of found_dbs.
DetectEnd ==
  /\ phase = "detect"
  /\ idx > Len(langs)
  /\ phase' = IF AbortNeeded \/ found = {} THEN "exit1" ELSE "gather"
  /\ UNCHANGED << inputVars, pureVars, detectVars, schedVars, gateVars, workerVars,
                  fileVars, lockVars, dbfs, runlog >>

(* --------------------------- main, part 1 ------------------------------ *)
\* gather_queries as main uses it: the catalog's queries whose language has
\* a database in found_dbs, in sorted path order.
gather_queries(cat, fd) ==
  SelectAt(cat, { i \in 1 .. Len(cat) : cat[i].lang \in fd })

\* main, lines 590-601: pairs, the exit when there are none, the temporary
\* directory and the emptied failure log.
Gather ==
  /\ phase = "gather"
  /\ pairs' = gather_queries(catalog, found)
  /\ IF pairs' = << >>
     THEN phase' = "exit1" /\ UNCHANGED flog
     ELSE phase' = "submit" /\ flog' = Some(<< >>)
  /\ UNCHANGED << inputVars, pureVars, detectVars, queue, fstate, fres, results, taken,
                  gateVars, workerVars, outfiles, report, lockVars, dbfs,
                  runlog >>

\* main, lines 604-611: every pair whose language is in found_dbs is
\* submitted to the executor, in order.
Submit ==
  /\ phase = "submit"
  /\ LET futs == { i \in 1 .. Len(pairs) : pairs[i].lang \in found }
     IN  /\ queue' = SelectSeq([i \in 1 .. Len(pairs) |-> i],
                               LAMBDA i : i \in futs)
         /\ fstate' = [i \in Items |-> IF i \in futs THEN "pending" ELSE "none"]
  /\ phase' = "collect"
  /\ UNCHANGED << inputVars, pureVars, detectVars, pairs, fres, results, taken,
                  gateVars, workerVars, fileVars, lockVars, dbfs, runlog >>

(* ----------------------- raw results, counters ------------------------ *)
\* What a raw result file can look like, per format.  A well-formed file
\* holds one finding, named after the work item that wrote it.
\*   csv:   good | garbage (bytes that do not decode)
\*   json:  good | garbage (not JSON) | scalar (a number or string at top
\*          level) | badresults ({"results": 5})
\*   sarif: good | garbage | toplist (a JSON list at top level) |
\*          badruns ({"runs": 5})
ShapesOf(fmt) ==
  IF fmt = "csv" THEN {"good", "garbage"}
  ELSE IF fmt = "json" THEN {"good", "garbage", "scalar", "badresults"}
  ELSE {"good", "garbage", "toplist", "badruns"}

Counted(n) == [raise |-> FALSE, n |-> n]
Raised == [raise |-> TRUE, n |-> 0]

\* count_csv_findings: every exception is caught and gives 0.
count_csv_findings(shape) ==
  IF shape = "garbage" THEN Counted(0) ELSE Counted(1)

\* count_json_findings: only json.load is inside the try; iterating a
\* "results" that is not iterable raises.
count_json_findings(shape) ==
  IF shape = "good" THEN Counted(1)
  ELSE IF shape = "badresults" THEN Raised
  ELSE Counted(0)

\* count_sarif_findings: a non-dict document gives 0; iterating a "runs"
\* that is not iterable raises.
count_sarif_findings(shape) ==
  IF shape = "good" THEN Counted(1)
  ELSE IF shape = "badruns" THEN Raised
  ELSE Counted(0)

(* ------------------------ ExecutionScheduler --------------------------- *)
\* run_query, line 460: tmp_dir / f"{query.stem}_{lang}.{output_format}".
\* The format is the same for every item of a run and is left out of the
\* name; no stem ends in a language name, so the pair is the name.
out_file(q) == << q.stem, q.lang >>

OutNames == { out_file(AllQueries[i]) : i \in Items }

\* The database an item runs on: found_dbs.get(lang).
DbOf(i) == pairs[i].lang

\* threading.Semaphore(1), line 441.
SemInit == 1

\* db_semaphore's "with _DB_LOCKS_MUX" ends: the mutex is free again.
MuxAfter(w) == 0

\* db_semaphore without the lookup: a new semaphore on every call.
db_semaphore_fresh(d) == Len(sems) + 1

\* db_semaphore with one semaphore for every database.
db_semaphore_shared(d) == 1

\* A semaphore that never blocks.
CanAcquire_always(w) == TRUE

\* db_semaphore: the semaphore stored for the database, index into sems;
\* Len(sems) + 1 is the one created when the map has none.
db_semaphore(d) == IF dbLocks[d] = 0 THEN Len(sems) + 1 ELSE dbLocks[d]

\* What run_query returns: (out_file or None, findings).
Ret(path, n) == [out |-> path, n |-> n]

Finished(i) == fstate[i] \in {"returned", "raised"}
Submitted == { i \in Items : fstate[i] # "none" }

\* Future i ends in state st with result r, and main's as_completed loop
\* (lines 612-615) consumes it: as_completed yields futures in the order in
\* which they finish, and nothing reads results before the loop has ended,
\* so the loop's iteration is taken together with the completion.  After an
\* exception has left the loop no further future is consumed.
Completes(i, st, r) ==
  /\ fstate' = [fstate EXCEPT ![i] = st]
  /\ fres' = [fres EXCEPT ![i] = r]
  /\ IF phase # "collect"
     THEN UNCHANGED << phase, results, taken >>
     ELSE /\ taken' = taken \cup {i}
          /\ phase' = IF st = "raised" THEN "unwind" ELSE phase
          /\ results' = IF st = "returned" /\ IsSome(r.out)
                        THEN Append(results, The(r.out)) ELSE results

\* A worker thread of the pool takes the next future from the work queue;
\* run_query runs up to "with sem" (lines 458-464): db_semaphore looks the
\* database up under the mutex and creates its semaphore if there is none.
Take(w) ==
  /\ phase \in {"collect", "unwind"}
  /\ w <= args.threads
  /\ pc[w] = "idle"
  /\ queue # << >>
  /\ mux = 0
  /\ LET i == Head(queue)
         k == db_semaphore(DbOf(i))
     IN  /\ cur' = [cur EXCEPT ![w] = i]
         /\ sem' = [sem EXCEPT ![w] = k]
         /\ sems' = IF k > Len(sems) THEN Append(sems, SemInit) ELSE sems
         /\ dbLocks' = [dbLocks EXCEPT ![DbOf(i)] = k]
         /\ fstate' = [fstate EXCEPT ![i] = "running"]
  /\ mux' = MuxAfter(w)
  /\ queue' = Tail(queue)
  /\ pc' = [pc EXCEPT ![w] = "gate"]
  /\ UNCHANGED << inputVars, pureVars, detectVars, phase, pairs, fres, results, taken,
                  invoked, errs, fileVars, lockVars, dbfs, runlog >>

\* "with sem:", line 465: Semaphore.acquire blocks while the counter is 0.
CanAcquire(w) == sems[sem[w]] > 0

\* Lines 465-467 and analyze_once up to the start of the analyzer: the
\* semaphore is acquired, the pre-query lock sweep runs, codeql database
\* analyze is started.
Acquire(w) ==
  /\ pc[w] = "gate"
  /\ CanAcquire(w)
  /\ sems' = [sems EXCEPT ![sem[w]] = @ - 1]
  /\ \E how \in Hows :
       LET w1 == maybe_handle_cache_lock(DbOf(cur[w]), args, FALSE, how, World)
       IN  /\ locks' = w1.locks
           /\ procs' = w1.procs
           /\ evs' = w1.evs
  /\ invoked' = [invoked EXCEPT ![cur[w]] = @ + 1]
  /\ runlog' = runlog \cup {[kind |-> "analyze", db |-> DbOf(cur[w])]}
  /\ pc' = [pc EXCEPT ![w] = "run1"]
  /\ UNCHANGED << inputVars, pureVars, detectVars, phase, schedVars, mux, dbLocks, cur,
                  sem, errs, fileVars, dbfs >>

\* The analyzer process of worker w is running.
InFlight(w) == pc[w] \in {"run1", "run2"}

\* Worker w is inside "with sem".
HoldsGate(w) == pc[w] \in {"run1", "run2"}

\* The raw result shapes the analyzer can write in this run.
ShapesNow == env.shapes \cap (ShapesOf(args.output_format) \cup {"absent"})

\* The analyzer exits with status 0 (first attempt or retry): it has written
\* out_file (or nothing, shape "absent"); the with block ends and the
\* semaphore is released.
AnalyzeOk(w) ==
  /\ InFlight(w)
  /\ "ok" \in env.outcomes
  /\ \E shape \in ShapesNow :
       outfiles' = IF shape # "absent"
                   THEN [outfiles EXCEPT ![out_file(pairs[cur[w]])] =
                           Some([by |-> cur[w], shape |-> shape])]
                   ELSE outfiles
  /\ errs' = [errs EXCEPT ![cur[w]] = Append(@, "ok")]
  /\ sems' = [sems EXCEPT ![sem[w]] = @ + 1]
  /\ pc' = [pc EXCEPT ![w] = "count"]
  /\ UNCHANGED << inputVars, pureVars, detectVars, phase, schedVars, mux, dbLocks, cur,
                  sem, invoked, flog, report, lockVars, dbfs, runlog >>

\* run_query, lines 470-471: the classes of the analyzer's stderr.
needs_finalize(e) == e \in {"finalize", "both"}
lock_hit(e) == e \in {"lock", "both"}

\* run_query, line 474: the finalize-and-retry branch is taken.
FinalizeBranch(e) ==
  needs_finalize(e) /\ args.auto_finalize_db /\ ~args.dry_run

\* run_query's retried after lines 474-487.
Retried(e) == FinalizeBranch(e) \/ lock_hit(e)

\* The first attempt fails with stderr class e and is retried (lines
\* 468-491): the on-demand finalize with its sweep, the forced sweep with
\* _RetryArgs, the delay, and analyze_once again with its own sweep.
AnalyzeRetry(w) ==
  /\ pc[w] = "run1"
  /\ \E e \in env.outcomes \ {"ok"}, how1 \in Hows, how2 \in Hows,
        how3 \in Hows :
       LET d == DbOf(cur[w])
           w1 == IF FinalizeBranch(e)
                 THEN maybe_handle_cache_lock(d, args, FALSE, how1, World)
                 ELSE World
           w2 == IF lock_hit(e)
                 THEN maybe_handle_cache_lock(d, RetryArgs(args), TRUE, how2, w1)
                 ELSE w1
           w3 == maybe_handle_cache_lock(d, args, FALSE, how3, w2)
       IN  /\ Retried(e)
           /\ locks' = w3.locks
           /\ procs' = w3.procs
           /\ evs' = w3.evs
           /\ errs' = [errs EXCEPT ![cur[w]] = Append(@, e)]
           /\ runlog' = runlog \cup
                (IF FinalizeBranch(e) THEN {[kind |-> "finalize", db |-> d]}
                 ELSE {})
  /\ invoked' = [invoked EXCEPT ![cur[w]] = @ + 1]
  /\ pc' = [pc EXCEPT ![w] = "run2"]
  /\ UNCHANGED << inputVars, pureVars, detectVars, phase, schedVars, gateVars, cur, sem,
                  fileVars, dbfs >>

\* run_query, line 499: "return None, 0" ends the future normally.
FailOutcome == "returned"

\* The failure-log entry of a work item, line 495: the query's path and the
\* language (the stderr text that follows is left out).
FailEntry(q) == [query |-> q.dir, stem |-> q.stem, lang |-> q.lang]

\* The log opened with mode 'w': what was there is lost.
write_failure_truncating(log, entry) == << entry >>

\* Lines 494-495: open(..., 'a') and one write of the whole entry; the
\* entry goes to the end of the file as it is when the write happens.
write_failure(log, entry) == Append(log, entry)

\* The failure is terminal (lines 468-499): the first attempt failed and is
\* not retried, or the retry failed.  One entry is appended to the failure
\* log, the semaphore is released by the with block, (None, 0) is returned.
AnalyzeFail(w) ==
  /\ InFlight(w)
  /\ \E e \in env.outcomes \ {"ok"} :
       /\ pc[w] = "run1" => ~Retried(e)
       /\ errs' = [errs EXCEPT ![cur[w]] = Append(@, e)]
  /\ flog' = Some(write_failure(The(flog), FailEntry(pairs[cur[w]])))
  /\ sems' = [sems EXCEPT ![sem[w]] = @ + 1]
  /\ Completes(cur[w], FailOutcome, Ret(Nothing, 0))
  /\ pc' = [pc EXCEPT ![w] = "idle"]
  /\ cur' = [cur EXCEPT ![w] = 0]
  /\ sem' = [sem EXCEPT ![w] = 0]
  /\ UNCHANGED << inputVars, pureVars, detectVars, pairs, queue, mux, dbLocks, invoked,
                  outfiles, report, lockVars, dbfs, runlog >>

(* ------------------- run_query after the gate, main ------------------- *)
\* run_query, lines 501-511, outside "with sem": nothing to count when the
\* file does not exist, else the counter of the format; an exception of the
\* counter ends the future.
Count(w) ==
  /\ pc[w] = "count"
  /\ LET f == outfiles[out_file(pairs[cur[w]])]
         fmt == args.output_format
         c == IF ~IsSome(f) THEN Counted(0)
              ELSE IF fmt = "csv" THEN count_csv_findings(The(f).shape)
              ELSE IF fmt = "json" THEN count_json_findings(The(f).shape)
              ELSE count_sarif_findings(The(f).shape)
     IN  IF c.raise
         THEN Completes(cur[w], "raised", Ret(Nothing, 0))
         ELSE Completes(cur[w], "returned",
                        IF IsSome(f)
                        THEN Ret(Some(out_file(pairs[cur[w]])), c.n)
                        ELSE Ret(Nothing, 0))
  /\ pc' = [pc EXCEPT ![w] = "idle"]
  /\ cur' = [cur EXCEPT ![w] = 0]
  /\ sem' = [sem EXCEPT ![w] = 0]
  /\ UNCHANGED << inputVars, pureVars, detectVars, pairs, queue, gateVars, invoked,
                  errs, fileVars, lockVars, dbfs, runlog >>

\* The with ThreadPoolExecutor block ends, line 615: shutdown(wait=True)
\* returns once every submitted future has run; a pending exception then
\* leaves main.
ExecutorExit ==
  /\ phase \in {"collect", "unwind"}
  /\ \A i \in Submitted : Finished(i)
  /\ phase' = IF phase = "unwind" THEN "crash" ELSE "merge"
  /\ UNCHANGED << inputVars, pureVars, detectVars, schedVars, gateVars, workerVars,
                  fileVars, lockVars, dbfs, runlog >>

Merged(rows) == [raise |-> FALSE, rows |-> rows]
MergeRaised == [raise |-> TRUE, rows |-> << >>]

\* merge_csv's body for one raw file: no try, every row after the first is
\* appended.
merge_csv(f) ==
  IF f.shape = "garbage" THEN MergeRaised ELSE Merged(<< f.by >>)

\* merge_json's body for one raw file: unparsable files are skipped,
\* iterating a "results" that is not iterable raises.
merge_json(f) ==
  IF f.shape = "good" THEN Merged(<< f.by >>)
  ELSE IF f.shape = "badresults" THEN MergeRaised
  ELSE Merged(<< >>)

\* merge_sarif's body for one raw file: unparsable files are skipped,
\* data.get raises on a list, iterating a non-iterable "runs" raises.
merge_sarif(f) ==
  IF f.shape = "good" THEN Merged(<< f.by >>)
  ELSE IF f.shape = "garbage" THEN Merged(<< >>)
  ELSE MergeRaised

\* One raw file of results: skipped when it does not exist.
MergeOne(fmt, file) ==
  IF ~IsSome(file) THEN Merged(<< >>)
  ELSE IF fmt = "csv" THEN merge_csv(The(file))
  ELSE IF fmt = "json" THEN merge_json(The(file))
  ELSE merge_sarif(The(file))

RECURSIVE MergeAll(_, _)
MergeAll(fmt, files) ==
  IF files = << >> THEN Merged(<< >>)
  ELSE LET h == MergeOne(fmt, Head(files))
           t == MergeAll(fmt, Tail(files))
       IN  IF h.raise \/ t.raise THEN MergeRaised
           ELSE Merged(h.rows \o t.rows)

\* main, lines 617-641: the merge of the raw files into the report, the
\* summary, the removal of the temporary directory.
Merge ==
  /\ phase = "merge"
  /\ LET m == MergeAll(args.output_format,
                       [k \in 1 .. Len(results) |-> outfiles[results[k]]])
     IN  IF m.raise
         THEN /\ phase' = "crash"
              /\ UNCHANGED << report, outfiles >>
         ELSE /\ phase' = "done"
              /\ report' = Some(m.rows)
              /\ outfiles' = [n \in OutNames |-> Nothing]
  /\ UNCHANGED << inputVars, pureVars, detectVars, schedVars, gateVars, workerVars,
                  flog, lockVars, dbfs, runlog >>

(* --------------------------- specifications ---------------------------- *)
Next ==
  \/ DetectStep
  \/ DetectEnd
  \/ Gather
  \/ Submit
  \/ \E w \in Workers : Take(w)
  \/ \E w \in Workers : Acquire(w)
  \/ \E w \in Workers : AnalyzeOk(w)
  \/ \E w \in Workers : AnalyzeRetry(w)
  \/ \E w \in Workers : AnalyzeFail(w)
  \/ \E w \in Workers : Count(w)
  \/ ExecutorExit
  \/ Merge

\* The locals and files of a run before detect_databases.
InitLocals ==
  /\ idx = 1
  /\ found = {}
  /\ missing = {}
  /\ unfinalized = {}
  /\ cls = [l \in Langs |-> "Unseen"]
  /\ pairs = << >>
  /\ queue = << >>
  /\ fstate = [i \in Items |-> "none"]
  /\ fres = [i \in Items |-> Ret(Nothing, 0)]
  /\ results = << >>
  /\ taken = {}
  /\ mux = 0
  /\ dbLocks = [l \in Langs |-> 0]
  /\ sems = << >>
  /\ pc = [w \in Workers |-> "idle"]
  /\ cur = [w \in Workers |-> 0]
  /\ sem = [w \in Workers |-> 0]
  /\ invoked = [i \in Items |-> 0]
  /\ errs = [i \in Items |-> << >>]
  /\ evs = {}
  /\ runlog = {}
  /\ outfiles = [n \in OutNames |-> Nothing]
  /\ report = Nothing

\* The state main() starts in, before detect_databases; the failure log of
\* an earlier run may lie in the working directory.
InitRun ==
  /\ phase = "detect"
  /\ InitLocals
  /\ call = Nothing
  /\ ret = Nothing

\* A run started in a directory without a failure log.
InitProgram ==
  /\ InitRun
  /\ flog = Nothing

\* An entry left in hydraql_failures.log by an earlier run.
StaleEntry == [query |-> "old", stem |-> "old", lang |-> "java"]

\* parse_args' defaults (threads aside).
DefaultArgs ==
  [ threads |-> 1, output_format |-> "csv", dry_run |-> FALSE,
    allow_missing_db |-> FALSE, unlock_cache |-> FALSE,
    check_lock_process |-> FALSE, kill_lock_process |-> FALSE,
    auto_finalize_db |-> FALSE, auto_init_db |-> FALSE,
    source_root |-> FALSE, force_scan_unready |-> FALSE ]

\* A database directory that is ready to be scanned.
ReadyDb == [meta |-> TRUE, files |-> ManyFiles]
NoLocks == [l \in Langs |-> [p \in LockPaths |-> Nothing]]

\* The catalogs explored: the non-empty selections of at most MaxQueries of
\* the query files, in path order.
Catalogs ==
  { SelectAt(AllQueries, S) :
      S \in { T \in SUBSET Items : T # {} /\ Cardinality(T) <= MaxQueries } }

\* An environment in which every external command succeeds.
CalmEnv ==
  [ outcomes |-> {"ok"}, shapes |-> {"good"}, clears |-> {"unlink"},
    creates |-> {"ok"}, finalizes |-> {"ok"} ]

\* The scheduler under every pool size and catalog: ready databases, an
\* analyzer that succeeds or fails in each class.
Init ==
  /\ InitRun
  /\ flog \in { Nothing, Some(<< StaleEntry >>) }
  /\ args \in { [DefaultArgs EXCEPT !.threads = t, !.output_format = "json"] :
                  t \in 1 .. MaxThreads }
  /\ langs = << "java", "python" >>
  /\ catalog \in Catalogs
  /\ env = [CalmEnv EXCEPT !.outcomes = {"ok", "lock", "other"}]
  /\ dbfs = [l \in Langs |-> ReadyDb]
  /\ locks = NoLocks
  /\ procs = {}

Spec == Init /\ [][Next]_vars

\* detect_databases under every combination of its flags and every state
\* of the two database directories; one query per language, one worker.
InitDetect ==
  /\ InitProgram
  /\ args \in { [DefaultArgs EXCEPT !.allow_missing_db = am,
                                    !.auto_init_db = ai, !.source_root = sr,
                                    !.dry_run = dr, !.auto_finalize_db = af,
                                    !.force_scan_unready = fs] :
                  am \in BoolSet, ai \in BoolSet, sr \in BoolSet,
                  dr \in BoolSet, af \in BoolSet, fs \in BoolSet }
  /\ langs = << "java", "python" >>
  /\ catalog = SelectAt(AllQueries, {1, 3})
  /\ env = [CalmEnv EXCEPT !.outcomes = {"ok", "lock", "other"},
                           !.creates = {"ok", "fail"},
                           !.finalizes = {"ok", "already", "fail"}]
  /\ dbfs \in [Langs -> [meta : BoolSet,
                         files : {HousekeepingOnly, FewFiles, ManyFiles}]]
  /\ locks = NoLocks
  /\ procs = {}

SpecDetect == InitDetect /\ [][Next]_vars

\* The lock sweeps of one worker on one database, under every combination
\* of the lock flags, auto-finalize and dry-run, every lock file content and
\* every class of analyzer failure.
InitLock ==
  /\ InitProgram
  /\ args \in { [DefaultArgs EXCEPT !.unlock_cache = uc,
                                    !.check_lock_process = cp,
                                    !.kill_lock_process = kp,
                                    !.auto_finalize_db = af, !.dry_run = dr] :
                  uc \in BoolSet, cp \in BoolSet, kp \in BoolSet,
                  af \in BoolSet, dr \in BoolSet }
  /\ langs = << "java" >>
  /\ catalog = SelectAt(AllQueries, {1})
  /\ env = [CalmEnv EXCEPT
              !.outcomes = {"ok", "lock", "finalize", "both", "other"},
              !.clears = {"unlink", "fail"}]
  /\ dbfs = [l \in Langs |-> ReadyDb]
  /\ \E direct \in {Nothing} \cup { Some(c) : c \in LockContents },
        nested \in {Nothing, Some(<< Txt >>)} :
       locks = [NoLocks EXCEPT !["java"] =
                  [p \in LockPaths |-> IF p = "direct" THEN direct ELSE nested]]
  /\ procs \in { {}, {7} }

SpecLock == InitLock /\ [][Next]_vars

\* The raw result files in every format and shape, two work items.
InitOutput ==
  /\ InitProgram
  /\ args \in { [DefaultArgs EXCEPT !.threads = t, !.output_format = f] :
                  t \in 1 .. MaxThreads, f \in Formats }
  /\ langs = << "java", "python" >>
  /\ catalog = SelectAt(AllQueries, {1, 3})
  /\ env = [CalmEnv EXCEPT
              !.outcomes = {"ok", "lock", "other"},
              !.shapes = {"good", "garbage", "scalar", "badresults",
                          "toplist", "badruns", "absent"}]
  /\ dbfs = [l \in Langs |-> ReadyDb]
  /\ locks = NoLocks
  /\ procs = {}

SpecOutput == InitOutput /\ [][Next]_vars

\* Two workers on one database, lock files under both databases: two java
\* queries, sweeps with and without --unlock-cache and --auto-finalize-db,
\* analyzer failures that are retried after a forced sweep or a finalize.
InitSweep ==
  /\ InitProgram
  /\ args \in { [DefaultArgs EXCEPT !.threads = 2, !.unlock_cache = uc,
                                    !.auto_finalize_db = af] :
                  uc \in BoolSet, af \in BoolSet }
  /\ langs = << "java", "python" >>
  /\ catalog = SelectAt(AllQueries, {1, 4})
  /\ env = [CalmEnv EXCEPT
              !.outcomes = {"ok", "lock", "finalize"},
              !.clears = {"unlink", "fail"}]
  /\ dbfs = [l \in Langs |-> ReadyDb]
  /\ locks \in { [l \in Langs |->
                    [p \in LockPaths |-> IF p = "direct" THEN lk[l] ELSE Nothing]] :
                  lk \in [Langs -> { Nothing, Some(<< Label, Num(7) >>) }] }
  /\ procs = {7}

SpecSweep == InitSweep /\ [][Next]_vars

\* What the scheduling of a run guarantees: a pool thread that can take a
\* queued future does, a thread waiting on a semaphore that is released
\* again and again gets it, every external process ends (the analyzer exits
\* with some status), and a thread or main that can go on does.
Fairness ==
  /\ \A w \in Workers :
       /\ WF_vars(Take(w))
       /\ SF_vars(Acquire(w))
       /\ WF_vars(AnalyzeOk(w) \/ AnalyzeRetry(w) \/ AnalyzeFail(w))
       /\ WF_vars(Count(w))
  /\ WF_vars(DetectStep \/ DetectEnd \/ Gather \/ Submit \/ ExecutorExit
               \/ Merge)

\* The raw result files in every format and shape, under fair scheduling.
SpecOutputLive == InitOutput /\ [][Next]_vars /\ Fairness

(* -------------------- library functions on their own ------------------ *)
\* Everything a library function applied on its own leaves alone.
progVars == << inputVars, detectVars, schedVars, gateVars, workerVars,
               fileVars, lockVars, phase, dbfs, runlog, call >>

\* No run is in progress: only the function named by call is applied.
InitLibrary ==
  /\ phase = "lib"
  /\ InitLocals
  /\ args = DefaultArgs
  /\ langs = << >>
  /\ catalog = << >>
  /\ env = CalmEnv
  /\ dbfs = [l \in Langs |-> ReadyDb]
  /\ locks = NoLocks
  /\ procs = {}
  /\ flog = Nothing
  /\ ret = Nothing

Applies(fn) ==
  phase = "lib" /\ IsSome(call) /\ The(call).fn = fn /\ ret = Nothing

(* force_delete_lock, step by step *)
\* The strategies in the order of the four try blocks.
Strategies == << "delete", "chmod-delete", "truncate-delete", "rename" >>

\* The system calls of force_delete_lock; a plan says which of them succeed.
Prims == {"unlink1", "chmod", "unlink2", "openw", "unlink3", "rename"}

\* Only the first try block, reported as a success whatever happened.
force_delete_lock_once(plan, verbose) ==
  [ ok |-> TRUE, tried |-> << "delete" >>,
    exists |-> ~plan["unlink1"], relaxed |-> FALSE, truncated |-> FALSE,
    sidecar |-> FALSE, out |-> << >> ]

\* force_delete_lock, lines 177-203: the try blocks in order; a block is
\* left at its first failing call, the function returns True from the first
\* block that runs to its end and False after the last one failed.  out is
\* what is printed: the strategy's line under verbose, the warning always.
force_delete_lock_steps(plan, verbose) ==
  LET s1 == plan["unlink1"]
      s2 == plan["chmod"] /\ plan["unlink2"]
      s3 == plan["openw"] /\ plan["unlink3"]
      s4 == plan["rename"]
      won == IF s1 THEN 1 ELSE IF s2 THEN 2 ELSE IF s3 THEN 3
             ELSE IF s4 THEN 4 ELSE 0
      last == IF won = 0 THEN Len(Strategies) ELSE won
  IN  [ ok |-> won # 0,
        tried |-> SubSeq(Strategies, 1, last),
        exists |-> won = 0,
        relaxed |-> last >= 2 /\ plan["chmod"],
        truncated |-> last >= 3 /\ plan["openw"],
        sidecar |-> won = 4,
        out |-> IF won = 0 THEN << "could not remove" >>
                ELSE IF verbose THEN << Strategies[won] >>
                ELSE << >> ]

ApplyClear ==
  /\ Applies("force_delete_lock")
  /\ ret' = Some(force_delete_lock_steps(The(call).plan, The(call).verbose))
  /\ UNCHANGED progVars

NextClear == ApplyClear

\* force_delete_lock under every pattern of failing system calls.
InitClear ==
  /\ InitLibrary
  /\ call \in { Some([fn |-> "force_delete_lock", plan |-> p, verbose |-> v]) :
                  p \in [Prims -> BoolSet], v \in BoolSet }

SpecClear == InitClear /\ [][NextClear]_vars

(* gather_queries and infer_query_language on a directory tree *)
\* str.lower() on the names used here.
Lower(w) ==
  IF w = "Java" THEN "java" ELSE IF w = "Python" THEN "python" ELSE w

\* alias_lang: lower case, then LANG_ALIASES (line 48).
alias_lang(w) ==
  LET l == Lower(w)
  IN  IF l = "typescript" THEN "javascript"
      ELSE IF l = "kotlin" THEN "java"
      ELSE l

\* The query files that may exist, in sorted path order: the directory as
\* path segments, the file name and its suffix.
QueryFiles ==
  << [dir |-> << "q" >>, name |-> "a.ql", ext |-> "ql"],
     [dir |-> << "q" >>, name |-> "s.qls", ext |-> "qls"],
     [dir |-> << "q", "sub" >>, name |-> "b.ql", ext |-> "ql"],
     [dir |-> << "r", "Java" >>, name |-> "c.ql", ext |-> "ql"] >>

FileIds == 1 .. Len(QueryFiles)

\* The directories that exist, and one that does not.
ExistingDirs == { << "q" >>, << "q", "sub" >>, << "r" >>, << "r", "Java" >> }
QueryDirs == { << "q" >>, << "q", "sub" >>, << "r" >>, << "nowhere" >> }

\* What a file holds: no language import, an import within the first 8000
\* characters, or one only after them.  A tree gives every file of
\* QueryFiles its content, or Nothing when the file does not exist.
Contents ==
  { [word |-> "", early |-> FALSE],
    [word |-> "Python", early |-> TRUE],
    [word |-> "kotlin", early |-> TRUE],
    [word |-> "java", early |-> FALSE] }

Trees == [FileIds -> {Nothing} \cup { Some(c) : c \in Contents }]

\* Path(base).rglob(pattern): the existing files under dir with the suffix.
rglob(tree, d, ext) ==
  { i \in FileIds :
      /\ IsSome(tree[i])
      /\ QueryFiles[i].ext = ext
      /\ Len(d) <= Len(QueryFiles[i].dir)
      /\ SubSeq(QueryFiles[i].dir, 1, Len(d)) = d }

\* infer_query_language: IMPORT_LANG_RE on the first 8000 characters.
infer_query_language(content) ==
  IF content.early /\ content.word # ""
  THEN Some(alias_lang(content.word)) ELSE Nothing

\* q.parts in lower case.
Parts(i) ==
  { Lower(QueryFiles[i].dir[k]) : k \in 1 .. Len(QueryFiles[i].dir) }
    \cup { Lower(QueryFiles[i].name) }

\* The loop body with the suite test left out.
Collected_everything(tree, d, suite_only) ==
  IF d \notin ExistingDirs THEN {}
  ELSE rglob(tree, d, "ql") \cup rglob(tree, d, "qls")

\* gather_queries, lines 341-351, for one query directory.
Collected(tree, d, suite_only) ==
  IF d \notin ExistingDirs THEN {}
  ELSE LET suites == rglob(tree, d, "qls")
       IN  IF suite_only \/ suites # {} THEN suites
           ELSE rglob(tree, d, "ql") \cup rglob(tree, d, "qls")

\* gather_queries, lines 356-361: the language a collected file is paired
\* with, or Nothing when it is dropped.
PairedLang(tree, i, lgs) ==
  LET al == [k \in 1 .. Len(lgs) |-> alias_lang(lgs[k])]
      detected == infer_query_language(The(tree[i]))
      hints == { k \in 1 .. Len(al) : al[k] \in Parts(i) }
  IN  IF IsSome(detected) /\ \E k \in 1 .. Len(al) : al[k] = The(detected)
      THEN detected
      ELSE IF hints # {}
      THEN Some(al[CHOOSE k \in hints : \A j \in hints : k <= j])
      ELSE Nothing

\* gather_queries as a whole: sorted(set(collected)), then the pairs.
gather_queries_walk(tree, query_dirs, lgs, suite_only) ==
  LET coll == UNION { Collected(tree, query_dirs[k], suite_only) :
                        k \in 1 .. Len(query_dirs) }
      kept == { i \in coll : IsSome(PairedLang(tree, i, lgs)) }
      ids == SelectAt([i \in FileIds |-> i], kept)
  IN  [k \in 1 .. Len(ids) |->
         [q |-> ids[k], lang |-> The(PairedLang(tree, ids[k], lgs))]]

ApplyGather ==
  /\ Applies("gather_queries")
  /\ ret' = Some(gather_queries_walk(The(call).tree, The(call).query_dirs,
                                     The(call).langs, The(call).suite_only))
  /\ UNCHANGED progVars

NextGather == ApplyGather

\* The query directory lists explored: one or two directories.
DirLists ==
  { << d >> : d \in QueryDirs } \cup
  { << d, e >> : d \in QueryDirs, e \in QueryDirs }

\* gather_queries on every tree, directory list and suite-only value, for
\* two lists of resolved languages.
InitGather ==
  /\ InitLibrary
  /\ call \in { Some([fn |-> "gather_queries", tree |-> t, query_dirs |-> ds,
                      langs |-> ls, suite_only |-> so]) :
                  t \in Trees, ds \in DirLists,
                  ls \in { << "java" >>, << "python", "java" >> },
                  so \in BoolSet }

SpecGather == InitGather /\ [][NextGather]_vars

(* severity texts, map_loose, severity_matches *)
\* A text is its letters in lower case (w), how they are cased ("L" lower,
\* "U" upper, "M" mixed, "-" when there are none) and whether blanks
\* surround it.  NoText is '' (and a missing field read with default '').
Text(w, c, pad) == [w |-> w, c |-> IF w = "" THEN "-" ELSE c, pad |-> pad]
NoText == Text("", "-", FALSE)
strip(t) == [t EXCEPT !.pad = FALSE]
upper(t) == [t EXCEPT !.c = IF t.w = "" THEN "-" ELSE "U"]
lower(t) == [t EXCEPT !.c = IF t.w = "" THEN "-" ELSE "L"]

\* x occurs in y as a substring, for the letter strings used here.
SubWord(x, y) ==
  \/ x = ""
  \/ x = y
  \/ << x, y >> \in { << "high", "very-high" >> }

\* A substring test that rejects the whole text.
Contains_proper(cand, targ) == SubWord(targ.w, cand.w) /\ targ.w # cand.w

\* "targ in cand" for two stripped upper-case texts.
Contains(cand, targ) == SubWord(targ.w, cand.w)

\* map_loose, lines 312-317.
map_loose(sev) ==
  LET t == strip(lower(sev))
  IN  IF t = Text("error", "L", FALSE) THEN Text("critical", "U", FALSE)
      ELSE IF t = Text("warning", "L", FALSE) THEN Text("high", "U", FALSE)
      ELSE IF t = Text("note", "L", FALSE) THEN Text("medium", "U", FALSE)
      ELSE upper(sev)

\* severity_matches, lines 319-325.
severity_matches(candidate, target, strict) ==
  IF candidate = NoText THEN FALSE
  ELSE LET cand == upper(strip(candidate))
           targ == upper(strip(target))
       IN  IF strict THEN cand = targ
           ELSE map_loose(cand) = targ \/ Contains(cand, targ)

\* "if severity_filter": None and '' switch the filter off.
Filtering(f) == f # NoText

\* Concatenation of a sequence of sequences.
RECURSIVE Concat(_)
Concat(ss) == IF ss = << >> THEN << >> ELSE Head(ss) \o Concat(Tail(ss))

(* merge_csv *)
\* A CSV row: its number of columns and the text of its third column.
Row(n, sev) == [n |-> n, sev |-> IF n > 2 THEN sev ELSE NoText]
fixed_header == Row(9, Text("severity", "M", FALSE))

\* merge_csv's test of one row, line 521.
KeepRow(row, f, strict) ==
  ~(Filtering(f) /\ row.n > 2 /\ ~severity_matches(row.sev, f, strict))

\* merge_csv copying every row of a raw file, the first included.
CsvRowsOf_all(file, f, strict) ==
  IF ~IsSome(file) THEN << >>
  ELSE SelectSeq(The(file).rows, LAMBDA row : KeepRow(row, f, strict))

\* A raw CSV file as csv.reader yields it.
Csv(rows) == [kind |-> "csv", rows |-> rows]

\* merge_csv, lines 516-523, for one raw file (Nothing: it does not exist):
\* the first row is skipped, the others are kept or filtered.
CsvRowsOf(file, f, strict) ==
  IF ~IsSome(file) \/ The(file).rows = << >> THEN << >>
  ELSE SelectSeq(Tail(The(file).rows), LAMBDA row : KeepRow(row, f, strict))

\* merge_csv: the written file and the returned count.
merge_csv_rows(files, f, strict) ==
  LET rows == Concat([k \in 1 .. Len(files) |-> CsvRowsOf(files[k], f, strict)])
  IN  [doc |-> << fixed_header >> \o rows, total |-> Len(rows)]

(* merge_json *)
\* A JSON item: a dict with the three severity fields ('' when absent), or
\* something that is not a dict.
Item(isdict, severity, level, props) ==
  [dict |-> isdict, severity |-> severity, level |-> level, props |-> props]

\* merge_json, line 539: the first non-empty of severity, level,
\* properties.severity.
ItemSeverity(item) ==
  IF item.severity # NoText THEN item.severity
  ELSE IF item.level # NoText THEN item.level
  ELSE item.props

KeepItem(item, f, strict) ==
  /\ item.dict
  /\ Filtering(f) => severity_matches(ItemSeverity(item), f, strict)

\* merge_json, lines 532-541, for one raw file: data is [kind, items] with
\* kind "list", "dict" (items under 'results'), "scalar" or "garbage".
JsonItemsOf(file, f, strict) ==
  IF ~IsSome(file) \/ The(file).kind \notin {"list", "dict"} THEN << >>
  ELSE SelectSeq(The(file).items, LAMBDA item : KeepItem(item, f, strict))

merge_json_items(files, f, strict) ==
  LET merged == Concat([k \in 1 .. Len(files) |->
                          JsonItemsOf(files[k], f, strict)])
  IN  [doc |-> merged, total |-> Len(merged)]

(* merge_sarif *)
\* A SARIF result: its level ('' when absent; severity and the two
\* properties fields are read the same way) and its ruleId.
\* A run: a tag standing for every field other than results, the rules of
\* tool.driver as [id, sev], and results (Nothing when it is not a list).
\* build_rule_severity_map: the last rule with an id decides.
build_rule_severity_map(run) ==
  LET ids == { run.rules[k].id : k \in 1 .. Len(run.rules) } \ {""}
      lastOf(rid) == CHOOSE k \in 1 .. Len(run.rules) :
                       /\ run.rules[k].id = rid
                       /\ \A j \in 1 .. Len(run.rules) :
                            run.rules[j].id = rid => j <= k
  IN  [rid \in ids |-> run.rules[lastOf(rid)].sev]

\* result_matches_severity, lines 408-415.
result_matches_severity(res, rules_map, f, strict) ==
  LET candidates ==
        { res.level } \cup
        (IF res.ruleId # "" /\ res.ruleId \in DOMAIN rules_map
         THEN { rules_map[res.ruleId] } ELSE {})
  IN  \E c \in candidates : c # NoText /\ severity_matches(c, f, strict)

\* merge_sarif adding to total the results a run had before the filter.
SarifRun_countsRaw(run, f, strict) ==
  IF ~IsSome(run.results) THEN [run |-> run, n |-> 0]
  ELSE LET rules_map == build_rule_severity_map(run)
           filtered ==
             SelectSeq(The(run.results),
                       LAMBDA res :
                         ~(Filtering(f) /\
                           ~result_matches_severity(res, rules_map, f, strict)))
       IN  [run |-> [run EXCEPT !.results = Some(filtered)],
            n |-> Len(The(run.results))]

\* merge_sarif, lines 553-562, for one run: the copy with its filtered
\* results and what it adds to total.
SarifRun(run, f, strict) ==
  IF ~IsSome(run.results) THEN [run |-> run, n |-> 0]
  ELSE LET rules_map == build_rule_severity_map(run)
           filtered ==
             SelectSeq(The(run.results),
                       LAMBDA res :
                         ~(Filtering(f) /\
                           ~result_matches_severity(res, rules_map, f, strict)))
       IN  [run |-> [run EXCEPT !.results = Some(filtered)],
            n |-> Len(filtered)]

\* The runs of one raw file: none when it does not exist or does not parse.
SarifRunsOf(file) ==
  IF ~IsSome(file) \/ The(file).kind # "doc" THEN << >> ELSE The(file).runs

RECURSIVE SumSeq(_)
SumSeq(ns) == IF ns = << >> THEN 0 ELSE Head(ns) + SumSeq(Tail(ns))

merge_sarif_runs(files, f, strict) ==
  LET raw == Concat([k \in 1 .. Len(files) |-> SarifRunsOf(files[k])])
      new == [k \in 1 .. Len(raw) |-> SarifRun(raw[k], f, strict)]
  IN  [doc |-> [k \in 1 .. Len(new) |-> new[k].run],
       total |-> SumSeq([k \in 1 .. Len(new) |-> new[k].n])]

(* the merges applied on their own *)
ApplyMergeCsv ==
  /\ Applies("merge_csv")
  /\ ret' = Some(merge_csv_rows(The(call).files, The(call).filter,
                                The(call).strict))
  /\ UNCHANGED progVars

ApplyMergeJson ==
  /\ Applies("merge_json")
  /\ ret' = Some(merge_json_items(The(call).files, The(call).filter,
                                  The(call).strict))
  /\ UNCHANGED progVars

ApplyMergeSarif ==
  /\ Applies("merge_sarif")
  /\ ret' = Some(merge_sarif_runs(The(call).files, The(call).filter,
                                  The(call).strict))
  /\ UNCHANGED progVars

NextMerge == ApplyMergeCsv \/ ApplyMergeJson \/ ApplyMergeSarif

\* --severity values: none, and three texts.
Filters ==
  { NoText, Text("high", "L", FALSE), Text("high", "U", TRUE),
    Text("critical", "U", FALSE) }

\* Raw CSV files as the analyzer writes them: nothing, or a first line (the
\* header, or a finding when there is no header) and up to one more line: a
\* finding with a severity, a line of two columns, or a blank line.
DataRows ==
  { Row(0, NoText), Row(2, NoText), Row(9, NoText),
    Row(9, Text("high", "U", FALSE)), Row(9, Text("warning", "L", FALSE)),
    Row(9, Text("error", "M", TRUE)), Row(9, Text("very-high", "L", FALSE)) }

CsvFiles ==
  { Nothing, Some(Csv(<< >>)) } \cup
  { Some(Csv(<< r >>)) : r \in {fixed_header} \cup DataRows } \cup
  { Some(Csv(<< r, d >>)) :
      r \in {fixed_header} \cup DataRows, d \in DataRows }

\* A further raw CSV file: nothing, or the header and up to one more line.
SecondCsvFiles ==
  { Nothing, Some(Csv(<< fixed_header >>)) } \cup
  { Some(Csv(<< fixed_header, d >>)) : d \in DataRows }

\* Raw JSON files: unparsable, a scalar, a list of up to two items, or an
\* object with one item under 'results'.
Items2 ==
  { Item(FALSE, NoText, NoText, NoText) } \cup
  { Item(TRUE, sv, lv, NoText) :
      sv \in { NoText, Text("high", "U", FALSE), Text("low", "L", FALSE) },
      lv \in { NoText, Text("warning", "L", FALSE) } }

JsonFiles ==
  { Nothing, Some([kind |-> "garbage", items |-> << >>]),
    Some([kind |-> "scalar", items |-> << >>]),
    Some([kind |-> "list", items |-> << >>]) } \cup
  { Some([kind |-> k, items |-> << i >>]) :
      k \in {"list", "dict"}, i \in Items2 } \cup
  { Some([kind |-> "list", items |-> << i, j >>]) : i \in Items2, j \in Items2 }

SecondJsonFiles ==
  { Nothing, Some([kind |-> "garbage", items |-> << >>]) } \cup
  { Some([kind |-> "list", items |-> << i >>]) : i \in Items2 }

\* Raw SARIF files: unparsable, or a document of up to two runs.
Results2 ==
  { [level |-> lv, ruleId |-> rid] :
      lv \in { NoText, Text("warning", "L", FALSE), Text("note", "L", FALSE) },
      rid \in { "", "r1" } }

ResultLists ==
  { Nothing, Some(<< >>) } \cup { Some(<< r >>) : r \in Results2 } \cup
  { Some(<< r, [level |-> Text("warning", "L", FALSE), ruleId |-> ""] >>) :
      r \in Results2 }

Runs ==
  { [tag |-> t, rules |-> ru, results |-> rs] :
      t \in {"t1", "t2"},
      ru \in { << >>, << [id |-> "r1", sev |-> Text("high", "U", FALSE)] >> },
      rs \in ResultLists }

SecondRuns ==
  { [tag |-> "t3", rules |-> << >>, results |-> rs] :
      rs \in { Nothing,
               Some(<< [level |-> Text("warning", "L", FALSE),
                        ruleId |-> ""] >>) } }

SarifFiles ==
  { Nothing, Some([kind |-> "garbage", runs |-> << >>]),
    Some([kind |-> "doc", runs |-> << >>]) } \cup
  { Some([kind |-> "doc", runs |-> << r >>]) : r \in Runs } \cup
  { Some([kind |-> "doc", runs |-> << r, q >>]) : r \in Runs, q \in SecondRuns }

SecondSarifFiles ==
  { Nothing } \cup { Some([kind |-> "doc", runs |-> << q >>]) : q \in SecondRuns }

\* The lists of raw files handed to a merge.
FileLists(first, second) ==
  { << >> } \cup { << a >> : a \in first } \cup
  { << a, b >> : a \in first, b \in second }

MergeCalls(fn, lists) ==
  { Some([fn |-> fn, files |-> fl, filter |-> f, strict |-> st]) :
      fl \in lists, f \in Filters, st \in BoolSet }

\* The three merges on every list of raw files, filter and mode.
InitMerge ==
  /\ InitLibrary
  /\ call \in MergeCalls("merge_csv", FileLists(CsvFiles, SecondCsvFiles))
              \cup MergeCalls("merge_json", FileLists(JsonFiles, SecondJsonFiles))
              \cup MergeCalls("merge_sarif",
                              FileLists(SarifFiles, SecondSarifFiles))

SpecMerge == InitMerge /\ [][NextMerge]_vars

(* severity_matches applied on its own *)
\* One candidate and one filter value, judged in both modes.
ApplySeverity ==
  /\ Applies("severity_matches")
  /\ ret' = Some([strict |-> severity_matches(The(call).candidate,
                                              The(call).target, TRUE),
                  loose |-> severity_matches(The(call).candidate,
                                             The(call).target, FALSE)])
  /\ UNCHANGED progVars

NextSeverity == ApplySeverity

\* Severity texts: the empty and the blank text, and the analyzer's and
\* the normalized words in lower, upper and mixed case, bare or surrounded
\* by blanks.
SeverityWords ==
  { "", "note", "warning", "error", "medium", "high", "critical",
    "very-high" }

SeverityTexts ==
  { Text(w, c, pad) :
      w \in SeverityWords, c \in {"L", "U", "M"}, pad \in BoolSet }

InitSeverity ==
  /\ InitLibrary
  /\ call \in { Some([fn |-> "severity_matches", candidate |-> c,
                       target |-> t]) :
                  c \in SeverityTexts, t \in SeverityTexts \ {NoText} }

SpecSeverity == InitSeverity /\ [][NextSeverity]_vars

(* ------------------------------ claims --------------------------------- *)
Range(f) == { f[x] : x \in DOMAIN f }
Last(q) == q[Len(q)]
Active == { w \in Workers : w <= args.threads }
Scheduling == phase \in {"collect", "unwind"}

\* Some work item on database d is inside "with sem".
Busy(d) == \E w \in Workers : HoldsGate(w) /\ DbOf(cur[w]) = d

\* C1: per-database mutual exclusion.  In every reachable state, two
\* different workers never both have an analyzer process (first attempt or
\* retry) running on the same database, whatever the pool size.
C1_MutualExclusion ==
  \A a \in Workers, b \in Workers :
    (a # b /\ InFlight(a) /\ InFlight(b)) => DbOf(cur[a]) # DbOf(cur[b])

\* C1 witness: a retry is running on a database while another worker waits
\* at the gate of the same database.
C1_Witness ==
  \E a \in Workers, b \in Workers :
    /\ a # b
    /\ pc[a] = "run2"
    /\ pc[b] = "gate"
    /\ DbOf(cur[a]) = DbOf(cur[b])

\* Both attempts of item i have failed.
FailedTwice(i) ==
  Len(errs[i]) = 2 /\ errs[i][1] # "ok" /\ errs[i][2] # "ok"

\* Item i's run_query has returned after a successful analyzer exit.
Succeeded(i) ==
  Finished(i) /\ errs[i] # << >> /\ Last(errs[i]) = "ok"

\* The failure log's entries for item i.
LogEntries(i) ==
  { k \in 1 .. Len(The(flog)) :
      The(flog)[k] = [query |-> pairs[i].dir, stem |-> pairs[i].stem,
                      lang |-> pairs[i].lang] }

\* C2: a work item whose first attempt and retry both fail has exactly one
\* failure-log entry, returns no raw result (and no exception), is absent
\* from the report, and does not abort the run: main leaves the executor
\* normally, the report is written, and it holds the findings of every other
\* item that succeeded.
C2_FailureIsolated ==
  \A i \in Submitted :
    FailedTwice(i) =>
      /\ fstate[i] = "returned"
      /\ fres[i] = Ret(Nothing, 0)
      /\ Cardinality(LogEntries(i)) = 1
      /\ phase \notin {"unwind", "crash"}
      /\ phase = "done" =>
           /\ IsSome(report)
           /\ i \notin Range(The(report))
           /\ \A j \in Submitted :
                Succeeded(j) => j \in Range(The(report))

\* C7: raw result files are private per work item.  Any two distinct work
\* items have distinct raw result paths, and no raw result path is handed to
\* the merge twice.
C7_PrivateRawResults ==
  /\ \A i \in 1 .. Len(pairs), j \in 1 .. Len(pairs) :
       i # j => out_file(pairs[i]) # out_file(pairs[j])
  /\ \A k \in 1 .. Len(results), m \in 1 .. Len(results) :
       k # m => results[k] # results[m]

\* Workers waiting at the gate of d, and d's items still in the queue.
AtGate(d) == { w \in Workers : pc[w] = "gate" /\ DbOf(cur[w]) = d }
QueuedAt(d) == { k \in 1 .. Len(queue) : DbOf(queue[k]) = d }

\* An item of d can reach its analyzer without any other item finishing:
\* a worker is at d's gate and can pass it, or an idle worker will take the
\* item from the queue.
CanStartNow(d) ==
  \/ \E w \in AtGate(d) : CanAcquire(w)
  \/ \E k \in QueuedAt(d) :
       k <= Cardinality({ w \in Active : pc[w] = "idle" })

\* C8 as claimed: whenever a database has an unstarted item and no item in
\* flight, that item can start without waiting for an item of another
\* database to finish.  Read in the claim's favour: only states in which
\* some worker of the pool is not running an analyzer are considered.
C8_NoCrossDatabaseDelay ==
  Scheduling =>
    \A d \in Langs :
      ( /\ AtGate(d) # {} \/ QueuedAt(d) # {}
        /\ ~Busy(d)
        /\ \E w \in Active : pc[w] \in {"idle", "gate"} )
      => CanStartNow(d)

\* C8 amended: a gate blocks only on its own database.  A worker that has
\* taken an item of database d, while no item of d is inside the gate, can
\* acquire the gate at once, whatever the items of other databases do.
C8_GateBlocksOnlyItsDatabase ==
  \A w \in Workers :
    (pc[w] = "gate" /\ ~Busy(DbOf(cur[w]))) => CanAcquire(w)

\* C8 witness: a worker stands at a free gate while an analyzer runs on
\* another database.
C8_Witness ==
  \E w \in Workers, v \in Workers :
    /\ pc[w] = "gate"
    /\ InFlight(v)
    /\ DbOf(cur[v]) # DbOf(cur[w])
    /\ ~Busy(DbOf(cur[w]))

\* The first attempt of item i is over.
FirstDone(i) == errs[i] # << >>

\* C3: retry exactly once.  The analyzer is invoked at most twice per work
\* item, and once the first attempt is over a second invocation has been
\* made if and only if the first attempt failed with a diagnostic classified
\* cache-locked, or needs-finalization while auto-finalize is enabled.
C3_RetryOnceIff ==
  \A i \in Submitted :
    /\ invoked[i] <= 2
    /\ FirstDone(i) =>
         ( invoked[i] = 2 <=>
             \/ lock_hit(errs[i][1])
             \/ needs_finalize(errs[i][1]) /\ args.auto_finalize_db )

Unusable == {"Missing", "Unfinalized"}

\* C4: an analyzer invocation is started only on a database classified
\* Ready, or Empty with the force override; a database classified Missing or
\* Unfinalized is never in the set handed to the scheduler (with or without
\* the allow-missing override) and is never scanned.
C4_OnlyReadyScanned ==
  /\ \A r \in runlog :
       r.kind = "analyze" =>
         \/ cls[r.db] = "Ready"
         \/ cls[r.db] = "Empty" /\ args.force_scan_unready
  /\ \A l \in Langs : cls[l] \in Unusable => l \notin found

\* C5 as claimed: once detection is over, if some requested language's
\* database is Missing or Unfinalized and allow-missing is not set, the run
\* has aborted and no work item was submitted.
C5_AbortOnUnusable ==
  ( /\ phase # "detect"
    /\ ~args.allow_missing_db
    /\ \E l \in Langs : cls[l] \in Unusable )
  => (phase = "exit1" /\ Submitted = {})

\* The creation of a missing database was only listed, not run.
CreationListed == args.dry_run /\ args.auto_init_db /\ args.source_root

\* C5 amended: the abort holds for every Unfinalized database and for every
\* Missing database except the one whose creation a dry run only lists
\* (--dry-run --auto-init-db --source-root): then the run goes on.
C5_AbortOnUnusableUnlessListed ==
  ( /\ phase # "detect"
    /\ ~args.allow_missing_db
    /\ \E l \in Langs :
         \/ cls[l] = "Unfinalized"
         \/ cls[l] = "Missing" /\ ~CreationListed )
  => (phase = "exit1" /\ Submitted = {})

\* C5 witness: the loop ran to its end over a database that failed to
\* finalize and the run aborted.
C5_Witness ==
  /\ phase = "exit1"
  /\ idx > Len(langs)
  /\ ~args.allow_missing_db
  /\ \E l \in Langs : cls[l] = "Unfinalized"
  /\ \E l \in Langs : cls[l] = "Ready"

\* The raw result item i has on disk is not of the expected shape.
MalformedOutput(i) ==
  LET f == outfiles[out_file(pairs[i])]
  IN  IsSome(f) /\ The(f).by = i /\ The(f).shape # "good"

\* C6: a work item whose analyzer succeeded with a malformed output file
\* counts zero findings and returns normally; the run does not abort, the
\* report is written and holds the findings of every item that had any.
C6_MalformedIsItemScoped ==
  /\ \A i \in Submitted :
       (Finished(i) /\ MalformedOutput(i)) =>
         fstate[i] = "returned" /\ fres[i].n = 0
  /\ phase \notin {"unwind", "crash"}
  /\ phase = "done" =>
       /\ IsSome(report)
       /\ \A j \in Submitted : fres[j].n > 0 => j \in Range(The(report))

\* The recovery path of run_query runs for database d in this step: a first
\* attempt on d ended with a failure classified cache-locked.
RecoveryStep(d) ==
  \E w \in Workers :
    /\ pc[w] = "run1"
    /\ pc'[w] = "run2"
    /\ DbOf(cur[w]) = d
    /\ lock_hit(Last(errs'[cur[w]]))

\* C9: lock policy.  In every step, an existing lock file changes (is
\* removed, truncated or renamed) only if unlock-cache is configured or the
\* step is the recovery path after a cache-locked failure on that database,
\* and a process is killed only if kill-lock-process is configured.  Hence a
\* sweep with neither option set and no cache-locked failure changes no
\* lock file and no process.
C9_LockPolicy ==
  [][ /\ \A d \in Langs, p \in LockPaths :
           (IsSome(locks[d][p]) /\ locks'[d][p] # locks[d][p])
             => (args.unlock_cache \/ RecoveryStep(d))
      /\ procs' # procs => args.kill_lock_process ]_vars

\* C9 witness: with neither option configured, sweeps have found a lock and
\* left it, and the recovery path has cleared one.
C9_Witness ==
  /\ ~args.unlock_cache
  /\ ~args.kill_lock_process
  /\ procs # {}
  /\ \E e \in evs : e.op = "found" /\ ~e.forced
  /\ \E e \in evs : e.op = "clear" /\ e.forced /\ ~IsSome(locks[e.db][e.path])

\* The lock text holds a number, so that a process id can be read from it.
HasParsablePid(text) == \E i \in 1 .. Len(text) : text[i].k = "num"

\* C10: for a lock whose content has no parsable process id, no sweep emits
\* the liveness line or signals a process, whatever the check and kill
\* options are; and every sweep that finds it while clearing is configured
\* or forced by the recovery path submits it to clearing.
C10_UnparsableLock ==
  \A e \in evs :
    ~HasParsablePid(e.text) =>
      /\ e.op \notin {"probe", "kill"}
      /\ (e.op = "found" /\ (e.forced \/ args.unlock_cache))
           => [e EXCEPT !.op = "clear"] \in evs

\* C10 witness: a lock without a parsable process id was cleared by the
\* recovery path while check and kill were both configured.
C10_Witness ==
  /\ args.check_lock_process
  /\ args.kill_lock_process
  /\ \E e \in evs : e.op = "clear" /\ e.forced /\ ~HasParsablePid(e.text)

\* The database directory of l has its descriptor and, apart from it,
\* only files under the excluded housekeeping subtrees.
OnlyHousekeeping(l) == dbfs[l].meta /\ dbfs[l].files = HousekeepingOnly

\* detect_databases has handled language l and its finalize did not fail.
Classified(l) == cls[l] # "Unseen" /\ l \notin unfinalized

Analyzed(l) == [kind |-> "analyze", db |-> l] \in runlog

\* The run ended after detection for want of any usable database.
AbortedForNoDatabase ==
  phase = "exit1" /\ idx > Len(langs) /\ ~AbortNeeded

C16_DryRunStartsNothing == args.dry_run => runlog = {}

\* A first attempt on database d has failed with a cache-locked diagnostic.
LockHitOn(d) ==
  \E i \in Submitted :
    FirstDone(i) /\ lock_hit(errs[i][1]) /\ DbOf(i) = d

\* C19: forced recovery is scoped to the recovery path.  The sweep made with
\* _RetryArgs happens only after a cache-locked failure on that database,
\* submits every lock it finds there to clearing whether or not unlock-cache
\* is configured, and signals no process even when kill-lock-process is
\* configured; the operator's flags never change, and every other sweep (the
\* retry's own and those of later work items) clears a lock only if
\* unlock-cache is configured.
C19_ForcedRecoveryScoped ==
  /\ [] ( \A e \in evs :
            /\ e.forced =>
                 /\ LockHitOn(e.db)
                 /\ e.op # "kill"
                 /\ e.op = "found" => [e EXCEPT !.op = "clear"] \in evs
            /\ (e.op = "clear" /\ ~e.forced) => args.unlock_cache )
  /\ [][args' = args]_vars

\* C19 witness: with kill-lock-process configured and unlock-cache not, the
\* recovery path has submitted a lock to clearing, the lock survived, and
\* the retry's own sweep signalled its owner and left the lock in place.
C19_Witness ==
  /\ args.kill_lock_process
  /\ ~args.unlock_cache
  /\ \E w \in Workers :
       /\ pc[w] = "run2"
       /\ \E e \in evs :
            /\ e.op = "clear" /\ e.forced /\ e.db = DbOf(cur[w])
            /\ IsSome(locks[e.db][e.path])
            /\ [e EXCEPT !.op = "kill", !.forced = FALSE] \in evs

\* Strategy k of the plan runs to its end.
StrategyWorks(plan, k) ==
  IF k = 1 THEN plan["unlink1"]
  ELSE IF k = 2 THEN plan["chmod"] /\ plan["unlink2"]
  ELSE IF k = 3 THEN plan["openw"] /\ plan["unlink3"]
  ELSE plan["rename"]

\* What C20 says of one finished call, the report aside: the strategies
\* were tried in the fixed order up to the first that works and none after
\* it, the call returned (it did not raise), success is returned exactly
\* when some strategy works, and then the lock path no longer exists.
ClearedInOrder(c, r) ==
  /\ r.tried = SubSeq(Strategies, 1, Len(r.tried))
  /\ r.tried # << >>
  /\ \A k \in 1 .. Len(r.tried) - 1 : ~StrategyWorks(c.plan, k)
  /\ r.ok <=> \E k \in 1 .. Len(Strategies) : StrategyWorks(c.plan, k)
  /\ r.ok => (StrategyWorks(c.plan, Len(r.tried)) /\ ~r.exists)
  /\ ~r.ok => (Len(r.tried) = Len(Strategies) /\ r.exists)

\* C20 as claimed: clearing tries the four strategies in the fixed order,
\* stops at the first that succeeds, never raises, returns success if and
\* only if some strategy succeeded, with the lock path gone, and every
\* successful call reports which strategy succeeded.
C20_ClearReportsStrategy ==
  IsSome(ret) =>
    LET c == The(call)
        r == The(ret)
    IN  /\ ClearedInOrder(c, r)
        /\ r.ok => r.out = << Last(r.tried) >>

\* C20 amended: clearing tries delete, relax-permissions-then-delete,
\* truncate-then-delete, rename in this order, stops at the first strategy
\* that succeeds, never raises, returns success if and only if some strategy
\* succeeded, in which case the lock path no longer exists; it reports which
\* strategy succeeded only in verbose mode, and otherwise prints nothing on
\* success.
C20_ClearEscalates ==
  IsSome(ret) =>
    LET c == The(call)
        r == The(ret)
    IN  /\ ClearedInOrder(c, r)
        /\ r.ok => r.out = (IF c.verbose THEN << Last(r.tried) >> ELSE << >>)

\* C20 witness: delete and chmod+delete failed, the lock was truncated, its
\* removal failed again, and the rename succeeded, silently.
C20_Witness ==
  /\ IsSome(ret)
  /\ The(ret).ok
  /\ The(ret).tried = Strategies
  /\ The(ret).truncated
  /\ ~The(call).verbose

\* The arguments and the result of a finished gather_queries call.
InCatalog(i) == \E k \in 1 .. Len(The(ret)) : The(ret)[k].q = i
Listed(d) == d \in Range(The(call).query_dirs) /\ d \in ExistingDirs
ScriptsUnder(d) == rglob(The(call).tree, d, "ql")
SuitesUnder(d) == rglob(The(call).tree, d, "qls")
Resolvable(i) == IsSome(PairedLang(The(call).tree, i, The(call).langs))
IsScript(i) == QueryFiles[i].ext = "ql"
Gathered == IsSome(ret) /\ The(call).fn = "gather_queries"

\* What C17 says in either reading: suites of a listed directory are
\* collected, a listed directory without suites contributes its scripts
\* unless suite-only is set, suite-only collects no script at all, every
\* collected path lies under a listed directory and is held once.
SuitesAndScripts ==
  /\ \A d \in QueryDirs :
       Listed(d) =>
         /\ \A i \in SuitesUnder(d) : Resolvable(i) => InCatalog(i)
         /\ (SuitesUnder(d) = {} /\ ~The(call).suite_only) =>
              \A i \in ScriptsUnder(d) : Resolvable(i) => InCatalog(i)
  /\ The(call).suite_only => \A i \in FileIds : InCatalog(i) => ~IsScript(i)
  /\ \A i \in FileIds :
       InCatalog(i) =>
         \E d \in QueryDirs :
           Listed(d) /\ i \in ScriptsUnder(d) \cup SuitesUnder(d)
  /\ \A k \in 1 .. Len(The(ret)), m \in 1 .. Len(The(ret)) :
       k # m => The(ret)[k].q # The(ret)[m].q

\* C17 as claimed: within any one listed directory that contains suite
\* descriptors only the suites are collected and none of that directory's
\* individual scripts; a directory without suites contributes its scripts
\* unless suite-only is set; the catalog holds each path at most once.
C17_SuitePrecedence ==
  Gathered =>
    /\ SuitesAndScripts
    /\ \A d \in QueryDirs :
         (Listed(d) /\ SuitesUnder(d) # {}) =>
           \A i \in ScriptsUnder(d) : ~InCatalog(i)

\* C17 amended: the choice is made per listed directory, searched
\* recursively.  A script is in the catalog only if it lies under some
\* listed directory that holds no suite (and suite-only is not set); it may
\* at the same time lie under another listed directory that does hold
\* suites.  The rest is as claimed.
C17_SuitePrecedencePerListedDir ==
  Gathered =>
    /\ SuitesAndScripts
    /\ \A i \in FileIds :
         (InCatalog(i) /\ IsScript(i)) =>
           \E d \in QueryDirs :
             Listed(d) /\ i \in ScriptsUnder(d) /\ SuitesUnder(d) = {}

\* C17 witness: a script was collected through a listed directory without
\* suites although it also lies under a listed directory that has one, whose
\* suite was collected too.
C17_Witness ==
  /\ Gathered
  /\ \E i \in FileIds, d \in QueryDirs :
       /\ InCatalog(i) /\ IsScript(i)
       /\ Listed(d) /\ i \in ScriptsUnder(d) /\ SuitesUnder(d) # {}
       /\ \E j \in SuitesUnder(d) : InCatalog(j)

\* The file has a language import within its bounded prefix.
Declares(content) == content.early /\ content.word # ""
Requested == { alias_lang(The(call).langs[k]) :
                 k \in 1 .. Len(The(call).langs) }
LangOf(i) == (CHOOSE e \in Range(The(ret)) : e.q = i).lang

\* C18: language inference.  A query with a declaration in its bounded
\* prefix is paired with the aliased declared language, and is dropped when
\* that language was not requested; a path segment decides only for a query
\* without such a declaration; every pair carries a requested language.
C18_DeclarationDecides ==
  Gathered =>
    \A i \in FileIds :
      InCatalog(i) =>
        LET content == The(The(call).tree[i])
        IN  /\ LangOf(i) \in Requested
            /\ Declares(content) => LangOf(i) = alias_lang(content.word)
            /\ ~Declares(content) => LangOf(i) \in Parts(i)

(* Severity filtering and aggregation *)
\* The merge whose result the state holds.
MergeDone(fn) == IsSome(call) /\ The(call).fn = fn /\ IsSome(ret)
MergeFilter == The(call).filter
AggregateDoc == The(ret).doc

\* Two texts are equal when case and surrounding blanks are ignored.
FoldEq(a, f) == a # NoText /\ a.w = f.w

\* The severity texts a SARIF result carries: its own, and the one of each
\* rule of its run that it refers to.
SarifSeverities(run, res) ==
  { res.level } \cup
  { run.rules[j].sev :
      j \in { i \in 1 .. Len(run.rules) :
                res.ruleId # "" /\ run.rules[i].id = res.ruleId } }

\* Every finding of the aggregate has a severity accepted by Ok(text, filter).
CsvFindingsAll(Ok(_, _)) ==
  \A k \in 2 .. Len(AggregateDoc) :
    AggregateDoc[k].n > 2 /\ Ok(AggregateDoc[k].sev, MergeFilter)

JsonFindingsAll(Ok(_, _)) ==
  \A k \in 1 .. Len(AggregateDoc) :
    \E t \in { AggregateDoc[k].severity, AggregateDoc[k].level,
               AggregateDoc[k].props } : Ok(t, MergeFilter)

SarifFindingsAll(Ok(_, _)) ==
  \A k \in 1 .. Len(AggregateDoc) :
    IsSome(AggregateDoc[k].results) =>
      \A i \in 1 .. Len(The(AggregateDoc[k].results)) :
        \E t \in SarifSeverities(AggregateDoc[k],
                                 The(AggregateDoc[k].results)[i]) :
          Ok(t, MergeFilter)

FindingsAll(Ok(_, _)) ==
  /\ MergeDone("merge_csv") => CsvFindingsAll(Ok)
  /\ MergeDone("merge_json") => JsonFindingsAll(Ok)
  /\ MergeDone("merge_sarif") => SarifFindingsAll(Ok)

\* C11: in strict mode, for each of the three formats and every non-empty
\* filter value, every finding of the filtered aggregate has a severity
\* field equal to the filter value when case is ignored; a record with no
\* severity field at all does not survive the filter.
C11_StrictFilterExact ==
  (IsSome(call) /\ IsSome(ret) /\ The(call).strict /\ Filtering(MergeFilter))
    => FindingsAll(FoldEq)

\* The tier of a severity word: note, warning and error are mapped, any other
\* word stands for itself.
Tier(w) ==
  IF w = "note" THEN "medium"
  ELSE IF w = "warning" THEN "high"
  ELSE IF w = "error" THEN "critical"
  ELSE w

LooseOk(a, f) == a # NoText /\ (Tier(a.w) = f.w \/ SubWord(f.w, a.w))

\* C12: in loose mode, every finding of the filtered aggregate has a severity
\* whose normalized tier equals the filter or whose text contains the filter
\* text, case ignored; a finding with neither is not in the aggregate.
C12_LooseFilterTier ==
  (IsSome(call) /\ IsSome(ret) /\ ~The(call).strict /\ Filtering(MergeFilter))
    => FindingsAll(LooseOk)

\* The raw CSV files of the call that exist, and the lines each one has after
\* its first.
RawCsv == SelectSeq(The(call).files, IsSome)
LinesAfterFirst(file) ==
  IF The(file).rows = << >> THEN 0 ELSE Len(The(file).rows) - 1

\* C13: the CSV aggregate starts with the fixed 9-column header and holds it
\* exactly once, for any number of raw files and of surviving rows, zero
\* included; the header line of a raw file is never copied: the aggregate has
\* at most as many rows after its header as the raw files have lines after
\* their first, and as many as the merge returns.
C13_HeaderOnce ==
  MergeDone("merge_csv") =>
    /\ AggregateDoc[1] = fixed_header
    /\ Cardinality({ k \in 1 .. Len(AggregateDoc) :
                       AggregateDoc[k] = fixed_header }) = 1
    /\ Len(AggregateDoc) = 1 + The(ret).total
    /\ The(ret).total <=
         SumSeq([k \in 1 .. Len(RawCsv) |-> LinesAfterFirst(RawCsv[k])])

\* Two raw files that both start with the header were merged and a row of
\* each survived.
C13_Witness ==
  /\ MergeDone("merge_csv")
  /\ Len(RawCsv) = 2
  /\ \A k \in 1 .. 2 :
       The(RawCsv[k]).rows # << >> /\ The(RawCsv[k]).rows[1] = fixed_header
  /\ The(ret).total = 2

\* The runs of the raw SARIF files of the call, in order.
RawRuns ==
  Concat([k \in 1 .. Len(The(call).files) |-> SarifRunsOf(The(call).files[k])])

ResultCount(run) == IF IsSome(run.results) THEN Len(The(run.results)) ELSE 0

\* C14: the total returned by the SARIF merge is the sum, over the runs of
\* the merged document, of the length of the run's results array after the
\* filter; the merged document has one run per run of the raw files, each
\* with every field other than results unchanged.
C14_SarifTotal ==
  MergeDone("merge_sarif") =>
    /\ The(ret).total =
         SumSeq([k \in 1 .. Len(AggregateDoc) |-> ResultCount(AggregateDoc[k])])
    /\ Len(AggregateDoc) = Len(RawRuns)
    /\ \A k \in 1 .. Len(RawRuns) :
         /\ AggregateDoc[k].tag = RawRuns[k].tag
         /\ AggregateDoc[k].rules = RawRuns[k].rules
         /\ IsSome(AggregateDoc[k].results) = IsSome(RawRuns[k].results)

\* Runs of two raw files were merged under a filter that removed a result of
\* one run and kept a result of another.
C14_Witness ==
  /\ MergeDone("merge_sarif")
  /\ Filtering(MergeFilter)
  /\ Len(SelectSeq(The(call).files, IsSome)) = 2
  /\ Len(RawRuns) >= 2
  /\ \E k \in 1 .. Len(RawRuns) :
       ResultCount(AggregateDoc[k]) < ResultCount(RawRuns[k])
  /\ The(ret).total >= 1

(* The failure log and the outcome of every work item *)
\* Item i's run_query has ended after an analyzer failure that was not, or
\* no longer, retried.
TerminallyFailed(i) ==
  Finished(i) /\ errs[i] # << >> /\ Last(errs[i]) # "ok"

\* main is past the point where the work items are submitted.
AfterSubmission ==
  phase \in {"submit", "collect", "unwind", "merge", "done", "crash"}

\* The log holds whole entries only, one per terminally failed work item.
LogIsWhole ==
  AfterSubmission =>
    /\ IsSome(flog)
    /\ Len(The(flog)) =
         Cardinality({ i \in Submitted : TerminallyFailed(i) })
    /\ \A i \in 1 .. Len(pairs) :
         Cardinality(LogEntries(i)) =
           IF i \in Submitted /\ TerminallyFailed(i) THEN 1 ELSE 0

\* A step changes the log only by emptying it before the submission or by
\* putting one whole entry after everything it holds.
LogStep ==
  \/ flog' = flog
  \/ phase = "gather" /\ flog' = Some(<< >>)
  \/ /\ Scheduling
     /\ IsSome(flog)
     /\ \E i \in 1 .. Len(pairs) :
          flog' = Some(Append(The(flog), FailEntry(pairs[i])))

\* C21: the failure log is emptied once, before any work item is submitted,
\* and afterwards only appended to; every terminal failure adds one whole
\* entry, so under every interleaving of workers failing on different
\* databases the log is a sequence of whole entries, one per terminally
\* failed work item, none overwritten by or mixed with another.
C21_LogIntegrity == [](LogIsWhole) /\ [][LogStep]_vars

\* Two workers have run, the run is over, and the log holds the entries of
\* failures on two different databases.
C21_Witness ==
  /\ phase = "done"
  /\ args.threads = 2
  /\ IsSome(flog)
  /\ \E k \in 1 .. Len(The(flog)), m \in 1 .. Len(The(flog)) :
       The(flog)[k].lang # The(flog)[m].lang

\* No worker holds the gate-map lock while it waits for a gate or while its
\* analyzer runs.
MuxNotHeldAcrossGate ==
  \A w \in Workers : pc[w] \in {"gate", "run1", "run2"} => mux # w

\* Every submitted work item eventually finishes.
EveryItemFinishes ==
  \A i \in Items : (fstate[i] \in {"pending", "running"}) ~> Finished(i)

\* Every acquired database gate is eventually released.
EveryGateReleased == \A d \in Langs : Busy(d) ~> ~Busy(d)

\* Once the work items are submitted the run eventually merges.
ReachesAggregation == (phase = "submit") ~> (phase = "merge")

\* C22: when every external process ends and gates are granted fairly, every
\* submitted work item eventually finishes, every acquired database gate is
\* eventually released on every path, no worker holds the gate-map lock while
\* it waits for a gate or while an analyzer runs, and the run eventually
\* reaches aggregation.
C22_Terminates ==
  /\ []MuxNotHeldAcrossGate
  /\ EveryItemFinishes
  /\ EveryGateReleased
  /\ ReachesAggregation

\* main has taken item i's future and appended its raw result to results.
Handed(i) == i \in taken /\ fstate[i] = "returned" /\ IsSome(fres[i].out)

\* The executor block of main has been left.
SchedulingOver == phase \in {"merge", "done", "crash"}

\* Item i's first attempt failed and its retry succeeded.
RetrySucceeded(i) ==
  Len(errs[i]) = 2 /\ errs[i][1] # "ok" /\ errs[i][2] = "ok"

\* C23: when the scheduling phase has ended, every submitted work item has
\* either handed exactly one raw result to the aggregation or produced
\* exactly one failure-log entry, never both and never neither; a work item
\* whose retry succeeded is aggregated and has no failure-log entry.
C23_OneOutcome ==
  SchedulingOver =>
    /\ \A i \in Submitted :
         \/ Handed(i) /\ LogEntries(i) = {}
         \/ ~Handed(i) /\ Cardinality(LogEntries(i)) = 1
    /\ Len(results) = Cardinality({ i \in Submitted : Handed(i) })
    /\ \A i \in Submitted :
         RetrySucceeded(i) => Handed(i) /\ LogEntries(i) = {}

(* Who touches a database during the scheduling phase *)
\* This step sweeps or clears a lock of d, finalizes d or starts an analyzer
\* on d.
Touches(d) ==
  \/ locks'[d] # locks[d]
  \/ \E e \in evs' \ evs : e.db = d
  \/ \E r \in runlog' \ runlog : r.db = d
  \/ \E i \in 1 .. Len(pairs) : DbOf(i) = d /\ invoked'[i] > invoked[i]

\* The step is taken by a worker that holds d's gate, while no other work
\* item's analyzer is in flight on d.
ByGateHolder(d) ==
  \E w \in Workers :
    /\ pc'[w] # pc[w]
    /\ pc'[w] \in {"run1", "run2"}
    /\ DbOf(cur'[w]) = d
    /\ sems'[sem'[w]] = 0
    /\ \A v \in Workers \ {w} : ~(InFlight(v) /\ DbOf(cur[v]) = d)

SweepStep ==
  Scheduling => \A d \in Langs : Touches(d) => ByGateHolder(d)

\* C24: during the scheduling phase every lock sweep, lock clear, on-demand
\* finalize and analyzer invocation on a database is performed by the worker
\* that holds the database's gate and touches only lock files under that
\* database; no lock file of a database is cleared, and the database is
\* never finalized, while another work item's analyzer is in flight on it.
C24_GateHolderOnly == [][SweepStep]_vars

\* A retry runs on a database after its lock was cleared by the forced
\* sweep, while another worker waits at the gate of the same database and
\* the lock file of the other database is still there.
C24_Witness ==
  \E a \in Workers, b \in Workers :
    /\ a # b
    /\ pc[a] = "run2"
    /\ pc[b] = "gate"
    /\ DbOf(cur[a]) = DbOf(cur[b])
    /\ \E e \in evs : e.op = "clear" /\ e.forced /\ e.db = DbOf(cur[a])
    /\ \E d \in Langs \ {DbOf(cur[a])} : find_all_locks(locks, d) # {}

(* Strict and loose severity matching *)
Judged == IsSome(call) /\ The(call).fn = "severity_matches" /\ IsSome(ret)

\* C25: loose mode is at least as permissive as strict mode: for every
\* candidate severity text and every filter value, a candidate the severity
\* predicate accepts in strict mode is accepted in loose mode too, so going
\* from strict to loose never removes a finding from the aggregate.
C25_LooseAtLeastStrict == Judged => (The(ret).strict => The(ret).loose)

\* An analyzer word that loose mode maps to another tier was accepted in
\* strict mode against a filter that differs from it in case and blanks.
C25_Witness ==
  /\ Judged
  /\ The(ret).strict
  /\ The(call).candidate.w \in {"note", "warning", "error"}
  /\ The(call).candidate # The(call).target

====
